---- MODULE Spec2Model ----
(***************************************************************************)
(* Model of the ED flow repository: the synthetic data generator           *)
(* (generate_data.py, generate_ed_data) and the dashboard's filter,        *)
(* KPI, heat-grid and insight computations (app.py).                       *)
(*                                                                         *)
(* Numbers are fixed point.  Times are seconds since Monday 2025-09-29     *)
(* 00:00:00, so that (t \div 86400) % 7 is pandas' dayofweek (0 = Monday). *)
(* bed_occupancy_pct is kept in tenths of a percent (the code rounds it to *)
(* one decimal); un-rounded minutes and percents are kept in thousandths;  *)
(* probabilities, uniform draws and logistic scores in 1/10000.            *)
(***************************************************************************)
EXTENDS Integers, Sequences, FiniteSets

VARIABLES
    args,        \* generate_ed_data's parameters: n, start_date, days, seed
    pc,          \* position inside generate_ed_data
    rng,         \* state of the seeded generator (np.random.default_rng)
    loc,         \* generate_ed_data's local arrays, one entry per row
    out_csv,     \* the file out_csv: whether it was written, and its rows
    ret,         \* what generate_ed_data returned: whether it did, and the rows
    run,         \* which run with these parameters this is (1 or 2)
    first_csv,   \* the file as the first run left it
    df,          \* app.py: the loaded table
    widgets,     \* app.py: the sidebar's state
    view         \* app.py: everything one script run computed from df and widgets

genVars == <<args, pc, rng, loc, out_csv, ret, run, first_csv>>
dashVars == <<df, widgets, view>>
vars == <<args, pc, rng, loc, out_csv, ret, run, first_csv, df, widgets, view>>

-----------------------------------------------------------------------------
(* Bounds of the model.                                                    *)

MaxN == 4
MaxSeed == 47

-----------------------------------------------------------------------------
(* numpy / pandas primitives the generator uses.                           *)

\* np.clip(x, lo, hi) on one element.
Clip(x, lo, hi) == IF x < lo THEN lo ELSE IF x > hi THEN hi ELSE x

\* ndarray.round: x, in 1/unit, rounded to a whole number, ties to even.
RoundHalfEven(x, unit) ==
    LET q == x \div unit
        r == x % unit
    IN  IF 2 * r < unit THEN q
        ELSE IF 2 * r > unit THEN q + 1
        ELSE IF q % 2 = 0 THEN q ELSE q + 1

\* astype(int) of a quotient: truncation toward zero.
TruncDiv(a, b) == IF a >= 0 THEN a \div b ELSE -((-a) \div b)

\* The seeded bit generator: a linear congruential generator of period
\* Modulus stands for PCG64.  Its state after default_rng(seed):
Modulus == 2 ^ 12

\* default_rng() without the seed: fresh entropy on every run.
SeedStateUnseeded(seed) == ((seed + 7 * run) * 977 + 389) % Modulus

SeedState(seed) == (seed * 977 + 389) % Modulus

LcgNext(s) == (1229 * s + 1) % Modulus

\* The k successive raw outputs drawn from state s, and the state after them.
RECURSIVE Stream(_, _)
Stream(s, k) == IF k <= 0 THEN <<>> ELSE <<LcgNext(s)>> \o Stream(LcgNext(s), k - 1)

RECURSIVE Skip(_, _)
Skip(s, k) == IF k <= 0 THEN s ELSE Skip(LcgNext(s), k - 1)

\* rng.random(): the raw output as a number of [0, 1), in 1/10000.
Random(u) == (u * 10000) \div Modulus

\* rng.uniform(0, high): high in seconds; floor(u / Modulus * high).
Uniform(u, high) == u * (high \div Modulus) + (u * (high % Modulus)) \div Modulus

\* rng.normal(0, sd) in thousandths.  The raw output selects a z-score (in
\* thousandths of sd); the outermost two stand for the unbounded tails.
ZScore == <<-40000, -3000, -2000, -1500, -1000, -700, -400, -100,
            100, 400, 700, 1000, 1500, 2000, 3000, 40000>>

Normal(u, sd) == sd * ZScore[(u * 16) \div Modulus + 1]

\* rng.choice(values, p = probs): inversion of the cumulative distribution
\* cdf (in 1/10000) against one uniform draw.
Choice(u, values, cdf) ==
    LET i == CHOOSE k \in 1..Len(values) :
                 /\ Random(u) < cdf[k]
                 /\ \A j \in 1..(k - 1) : Random(u) >= cdf[j]
    IN  values[i]

\* logistic(x) = 1 / (1 + exp(-x)), x and the result in 1/10000: tabulated
\* every 0.5 on [-8, 8] and interpolated linearly between the entries.
LogisticTable == <<3, 6, 9, 15, 25, 41, 67, 110, 180, 293, 474, 759, 1192, 1824,
                   2689, 3775, 5000, 6225, 7311, 8176, 8808, 9241, 9526, 9707,
                   9820, 9890, 9933, 9959, 9975, 9985, 9991, 9994, 9997>>

logistic(x) ==
    LET c == Clip(x, -80000, 79999) + 80000
        i == c \div 5000 + 1
        f == c % 5000
    IN  LogisticTable[i] + ((LogisticTable[i + 1] - LogisticTable[i]) * f) \div 5000

\* pd.Timestamp(start_date): whether the string parses (it raises ValueError
\* when it does not), and the instant in seconds when it does.
StartDates == {"2025-10-01", "2025-10-01 00:00:30", "first of October"}

Parses(s) == s \in {"2025-10-01", "2025-10-01 00:00:30"}

Timestamp(s) == IF s = "2025-10-01 00:00:30" THEN 2 * 86400 + 30 ELSE 2 * 86400

\* DatetimeIndex.floor("min"), .dayofweek, .hour, .day_name(), .dt.date
FloorMin(t) == t - (t % 60)
DayOfWeek(t) == (t \div 86400) % 7
Hour(t) == (t % 86400) \div 3600
day_order == <<"Monday", "Tuesday", "Wednesday", "Thursday", "Friday",
               "Saturday", "Sunday">>
DayName(t) == day_order[DayOfWeek(t) + 1]
Date(t) == t \div 86400

-----------------------------------------------------------------------------
(* generate_data.py: the per-row formulas of generate_ed_data.             *)

\* hour_peak (lines 28-32) for hour 0..23, in 1/10000.
hour_peak == <<1008, 1025, 1073, 1187, 1422, 1840, 2477, 3297, 4165, 4886, 5297,
               5380, 5298, 5316, 5648, 6327, 7167, 7850, 8073, 7688, 6753, 5490,
               4177, 3037>>

Indicator(b) == IF b THEN 1 ELSE 0

\* weekend = (dow >= 5).astype(int)
Weekend(t) == Indicator(DayOfWeek(t) >= 5)

\* day_index = ((arrival - start) / pd.Timedelta(days=1)).astype(int)
DayIndex(arrival, start) == TruncDiv(arrival - start, 86400)

\* The window with its first day left out.
FluWaveOpenStart(day_index) == Indicator(day_index > 35 /\ day_index <= 55)

\* flu_wave = ((day_index >= 35) & (day_index <= 55)).astype(int)
FluWave(day_index) == Indicator(day_index >= 35 /\ day_index <= 55)

\* bed_occ before clipping, in thousandths; peak is hour_peak.max().
BedOccRaw(t, flu, peak, noise) ==
    55000 + (30000 * hour_peak[Hour(t) + 1]) \div peak + 6000 * Weekend(t)
          + 10000 * flu + noise

\* bed_occ = np.clip(bed_occ, 35, 98).round(1), in tenths.
BedOcc(raw) == RoundHalfEven(Clip(raw, 35000, 98000), 100)

\* labs_prob and imaging_prob after their clips, in 1/10000.
LabsProb(triage, complaint) ==
    Clip(2000 + 1500 * Indicator(triage <= 2) + 1000 * Indicator(triage = 3)
              + 800 * Indicator(complaint = "Chest Pain")
              + 600 * Indicator(complaint = "Fever/Resp"), 0, 9500)

ImagingProb(triage, complaint) ==
    Clip(1200 + 1400 * Indicator(complaint = "Injury")
              + 1000 * Indicator(complaint = "Chest Pain")
              + 600 * Indicator(triage <= 2), 0, 9000)

\* dtp_mean in thousandths of a minute; occ in tenths of a percent.
DtpMean(occ, flu, triage, noise) ==
    18000 + 55 * (occ - 600) + 6000 * flu - 8000 * Indicator(triage <= 2)
          - 3000 * Indicator(triage = 3) + noise

\* door_to_provider_min = np.clip(dtp_mean, 2, 240).round(0).astype(int)
DoorToProvider(dtp_mean) == RoundHalfEven(Clip(dtp_mean, 2000, 240000), 1000)

\* los in thousandths of a minute.
Los(occ, flu, triage, labs, imaging, noise) ==
    110000 + 45 * (occ - 600) + noise + 55000 * labs + 65000 * imaging
           + 70000 * Indicator(triage <= 2) + 15000 * Indicator(triage = 3)
           + 15000 * flu

\* The clip with its upper bound forgotten.
LengthOfStayNoUpper(los) ==
    RoundHalfEven(IF los < 25000 THEN 25000 ELSE los, 1000)

\* length_of_stay_min = np.clip(los, 25, 900).round(0).astype(int)
LengthOfStay(los) == RoundHalfEven(Clip(los, 25000, 900000), 1000)

\* admit_prob = logistic(admit_score)
AdmitProb(triage, complaint, age_group, occ) ==
    logistic(-20000 + 15000 * Indicator(triage <= 2) + 7000 * Indicator(triage = 3)
                    + 6000 * Indicator(complaint = "Chest Pain")
                    + 5000 * Indicator(complaint = "Fever/Resp")
                    + 6000 * Indicator(age_group = "65+") + 20 * (occ - 700))

\* lwbs_prob = np.clip(logistic(lwbs_score), 0, 0.40)
LwbsProb(dtp, occ, triage, flu) ==
    Clip(logistic(-40000 + 180 * dtp + 35 * (occ - 700)
                         - 12000 * Indicator(triage <= 2)
                         - 4000 * Indicator(triage = 3) + 2500 * flu), 0, 4000)

\* The second np.where without its "not LWBS" condition.
DispositionAdmitOverrides(r, lwbs_prob, r2, admit_prob) ==
    IF r2 < admit_prob THEN "Admitted"
    ELSE IF r < lwbs_prob THEN "Left Without Being Seen" ELSE "Discharged"

\* lines 144 and 147: the two np.where over r and r2.
Disposition(r, lwbs_prob, r2, admit_prob) ==
    LET first == IF r < lwbs_prob THEN "Left Without Being Seen" ELSE "Discharged"
    IN  IF first # "Left Without Being Seen" /\ r2 < admit_prob
        THEN "Admitted" ELSE first

\* arrival_mode, lines 61 and 62: u1 and u2 are the two rng.random draws.
ArrivalMode(triage, u1, u2) ==
    LET first == IF triage <= 2 /\ Random(u1) < 6500 THEN "Ambulance" ELSE "Walk-in"
    IN  IF Random(u2) < 800 THEN "Ambulance" ELSE first

age_groups == <<"0-17", "18-34", "35-49", "50-64", "65+">>
age_cdf == <<1000, 4000, 6200, 8200, 10000>>
triage_levels == <<1, 2, 3, 4, 5>>
triage_cdf == <<300, 1500, 6000, 9000, 10000>>
pods == <<"Pod A", "Pod B", "Pod C">>
pod_cdf == <<3400, 6700, 10000>>
base_complaints == <<"Chest Pain", "Abdominal Pain", "Injury", "Fever/Resp",
                     "Headache", "Other">>
p_base == <<1000, 2800, 5000, 6600, 7400, 10000>>
p_flu == <<900, 2500, 4100, 6900, 7600, 10000>>

Dispositions == {"Discharged", "Admitted", "Left Without Being Seen"}

\* The largest element of a non-empty sequence (ndarray.max).
SeqMax(q) == CHOOSE m \in {q[i] : i \in 1..Len(q)} : \A i \in 1..Len(q) : q[i] <= m

-----------------------------------------------------------------------------
(* generate_data.py: generate_ed_data as a sequence of steps.              *)

DaysChoices == {-1, 0, 1, 40, 90}

EmptyLoc ==
    [start |-> 0, arrival |-> <<>>, flu_wave |-> <<>>, bed_raw |-> <<>>,
     bed_occ |-> <<>>, age_group |-> <<>>, triage |-> <<>>,
     arrival_mode |-> <<>>, pod |-> <<>>, complaint |-> <<>>,
     labs_ordered |-> <<>>, imaging_ordered |-> <<>>, dtp_mean |-> <<>>,
     door_to_provider_min |-> <<>>, los |-> <<>>, length_of_stay_min |-> <<>>,
     admit_prob |-> <<>>, lwbs_prob |-> <<>>, r |-> <<>>, r2 |-> <<>>,
     disposition |-> <<>>, df |-> <<>>]

NoTable == [written |-> FALSE, rows |-> <<>>]

Rows == 1..args.n

\* Line 15: rng = np.random.default_rng(seed)
SeedRng ==
    /\ pc = "seed"
    /\ rng' = SeedState(args.seed)
    /\ pc' = "parse"
    /\ UNCHANGED <<args, loc, out_csv, ret, run, first_csv, dashVars>>

\* Line 18: start = pd.Timestamp(start_date); an unparseable string raises.
ParseStart ==
    /\ pc = "parse"
    /\ IF Parses(args.start_date)
       THEN /\ loc' = [loc EXCEPT !.start = Timestamp(args.start_date)]
            /\ pc' = "arrival"
       ELSE /\ pc' = "error"
            /\ UNCHANGED loc
    /\ UNCHANGED <<args, rng, out_csv, ret, run, first_csv, dashVars>>

\* Lines 20-21: n uniform draws over [0, days * 24 * 60) minutes, floored to
\* the minute.  Generator.uniform raises ValueError for a negative size and
\* for high - low < 0.
DrawArrival ==
    /\ pc = "arrival"
    /\ IF args.n < 0 \/ args.days < 0
       THEN /\ pc' = "error"
            /\ UNCHANGED <<loc, rng>>
       ELSE /\ loc' = [loc EXCEPT !.arrival =
                         [i \in Rows |->
                            FloorMin(loc.start
                                     + Uniform(Stream(rng, args.n)[i],
                                               args.days * 86400))]]
            /\ rng' = Skip(rng, args.n)
            /\ pc' = "season"
    /\ UNCHANGED <<args, out_csv, ret, run, first_csv, dashVars>>

\* Lines 23-39: dow, hour, hour_peak, weekend, day_index, flu_wave.
Seasonality ==
    /\ pc = "season"
    /\ loc' = [loc EXCEPT !.flu_wave =
                 [i \in Rows |-> FluWave(DayIndex(loc.arrival[i], loc.start))]]
    /\ pc' = "occupancy"
    /\ UNCHANGED <<args, rng, out_csv, ret, run, first_csv, dashVars>>

\* Lines 42-49: bed_occ.  hour_peak.max() of an empty array raises ValueError.
Occupancy ==
    /\ pc = "occupancy"
    /\ IF args.n = 0
       THEN /\ pc' = "error"
            /\ UNCHANGED <<loc, rng>>
       ELSE LET peak == SeqMax([i \in Rows |-> hour_peak[Hour(loc.arrival[i]) + 1]])
                u == Stream(rng, args.n)
                raw == [i \in Rows |->
                          BedOccRaw(loc.arrival[i], loc.flu_wave[i], peak,
                                    Normal(u[i], 6))]
            IN  /\ loc' = [loc EXCEPT !.bed_raw = raw,
                                      !.bed_occ = [i \in Rows |-> BedOcc(raw[i])]]
                /\ rng' = Skip(rng, args.n)
                /\ pc' = "attributes"
    /\ UNCHANGED <<args, out_csv, ret, run, first_csv, dashVars>>

\* Lines 52-64: age_group, triage, arrival_mode (two draws per row), pod.
Attributes ==
    /\ pc = "attributes"
    /\ LET n == args.n
           u == Stream(rng, 5 * n)
           triage == [i \in Rows |-> Choice(u[n + i], triage_levels, triage_cdf)]
       IN  /\ loc' = [loc EXCEPT
                        !.age_group = [i \in Rows |-> Choice(u[i], age_groups, age_cdf)],
                        !.triage = triage,
                        !.arrival_mode =
                            [i \in Rows |-> ArrivalMode(triage[i], u[2 * n + i],
                                                        u[3 * n + i])],
                        !.pod = [i \in Rows |-> Choice(u[4 * n + i], pods, pod_cdf)]]
           /\ rng' = Skip(rng, 5 * n)
    /\ pc' = "complaint"
    /\ UNCHANGED <<args, out_csv, ret, run, first_csv, dashVars>>

\* Lines 73-77: one rng.choice per row, from p_flu or p_base by flu_wave[i].
Complaint ==
    /\ pc = "complaint"
    /\ LET u == Stream(rng, args.n)
       IN  /\ loc' = [loc EXCEPT !.complaint =
                        [i \in Rows |->
                           Choice(u[i], base_complaints,
                                  IF loc.flu_wave[i] = 1 THEN p_flu ELSE p_base)]]
           /\ rng' = Skip(rng, args.n)
    /\ pc' = "orders"
    /\ UNCHANGED <<args, out_csv, ret, run, first_csv, dashVars>>

\* Lines 80-95: labs_ordered, imaging_ordered.
Orders ==
    /\ pc = "orders"
    /\ LET n == args.n
           u == Stream(rng, 2 * n)
       IN  /\ loc' = [loc EXCEPT
                        !.labs_ordered =
                            [i \in Rows |->
                               Indicator(Random(u[i])
                                         < LabsProb(loc.triage[i], loc.complaint[i]))],
                        !.imaging_ordered =
                            [i \in Rows |->
                               Indicator(Random(u[n + i])
                                         < ImagingProb(loc.triage[i], loc.complaint[i]))]]
           /\ rng' = Skip(rng, 2 * n)
    /\ pc' = "outcomes"
    /\ UNCHANGED <<args, out_csv, ret, run, first_csv, dashVars>>

\* Lines 100-117: door_to_provider_min, length_of_stay_min.
Outcomes ==
    /\ pc = "outcomes"
    /\ LET n == args.n
           u == Stream(rng, 2 * n)
           dtp_mean == [i \in Rows |->
                          DtpMean(loc.bed_occ[i], loc.flu_wave[i], loc.triage[i],
                                  Normal(u[i], 8))]
           los == [i \in Rows |->
                     Los(loc.bed_occ[i], loc.flu_wave[i], loc.triage[i],
                         loc.labs_ordered[i], loc.imaging_ordered[i],
                         Normal(u[n + i], 25))]
       IN  /\ loc' = [loc EXCEPT
                        !.dtp_mean = dtp_mean,
                        !.door_to_provider_min =
                            [i \in Rows |-> DoorToProvider(dtp_mean[i])],
                        !.los = los,
                        !.length_of_stay_min = [i \in Rows |-> LengthOfStay(los[i])]]
           /\ rng' = Skip(rng, 2 * n)
    /\ pc' = "disposition"
    /\ UNCHANGED <<args, out_csv, ret, run, first_csv, dashVars>>

\* Lines 120-147: admit_prob, lwbs_prob, r, r2, disposition.
Dispose ==
    /\ pc = "disposition"
    /\ LET n == args.n
           u == Stream(rng, 2 * n)
           admit_prob == [i \in Rows |->
                            AdmitProb(loc.triage[i], loc.complaint[i],
                                      loc.age_group[i], loc.bed_occ[i])]
           lwbs_prob == [i \in Rows |->
                           LwbsProb(loc.door_to_provider_min[i], loc.bed_occ[i],
                                    loc.triage[i], loc.flu_wave[i])]
           r == [i \in Rows |-> Random(u[i])]
           r2 == [i \in Rows |-> Random(u[n + i])]
       IN  /\ loc' = [loc EXCEPT
                        !.admit_prob = admit_prob, !.lwbs_prob = lwbs_prob,
                        !.r = r, !.r2 = r2,
                        !.disposition =
                            [i \in Rows |->
                               Disposition(r[i], lwbs_prob[i], r2[i], admit_prob[i])]]
           /\ rng' = Skip(rng, 2 * n)
    /\ pc' = "frame"
    /\ UNCHANGED <<args, out_csv, ret, run, first_csv, dashVars>>

\* Lines 149-170: the DataFrame and its two derived columns.  A table is a
\* sequence of row groups: count consecutive rows with these fields, whose
\* visit_id is their position in the table (np.arange(1, n + 1)).
BuildFrame ==
    /\ pc = "frame"
    /\ loc' = [loc EXCEPT !.df =
                 [i \in Rows |->
                    [count |-> 1,
                     arrival_datetime |-> loc.arrival[i],
                     day_of_week |-> DayName(loc.arrival[i]),
                     hour |-> Hour(loc.arrival[i]),
                     triage_level |-> loc.triage[i],
                     chief_complaint |-> loc.complaint[i],
                     age_group |-> loc.age_group[i],
                     arrival_mode |-> loc.arrival_mode[i],
                     pod |-> loc.pod[i],
                     labs_ordered |-> loc.labs_ordered[i],
                     imaging_ordered |-> loc.imaging_ordered[i],
                     bed_occupancy_pct |-> loc.bed_occ[i],
                     door_to_provider_min |-> loc.door_to_provider_min[i],
                     length_of_stay_min |-> loc.length_of_stay_min[i],
                     disposition |-> loc.disposition[i],
                     flu_wave_flag |-> loc.flu_wave[i],
                     arrival_date |-> Date(loc.arrival[i]),
                     is_weekend |-> Weekend(loc.arrival[i])]]]
    /\ pc' = "write"
    /\ UNCHANGED <<args, rng, out_csv, ret, run, first_csv, dashVars>>

\* Line 172: df.to_csv(out_csv, index=False)
WriteCsv ==
    /\ pc = "write"
    /\ out_csv' = [written |-> TRUE, rows |-> loc.df]
    /\ pc' = "return"
    /\ UNCHANGED <<args, rng, loc, ret, run, first_csv, dashVars>>

\* Line 173: return df
Return ==
    /\ pc = "return"
    /\ ret' = [written |-> TRUE, rows |-> loc.df]
    /\ pc' = "done"
    /\ UNCHANGED <<args, rng, loc, out_csv, run, first_csv, dashVars>>

\* A second call of generate_ed_data with the same four parameters.
Rerun ==
    /\ pc = "done"
    /\ run = 1
    /\ run' = 2
    /\ first_csv' = out_csv
    /\ pc' = "seed"
    /\ loc' = EmptyLoc
    /\ rng' = 0
    /\ ret' = NoTable
    /\ UNCHANGED <<args, out_csv, dashVars>>

-----------------------------------------------------------------------------
(* app.py: one script run, as a function of the table and the sidebar.     *)

\* The sum of a column over the rows of a frame.
RECURSIVE SumOver(_, _)
SumOver(groups, field) ==
    IF groups = <<>> THEN 0
    ELSE Head(groups).count * Head(groups)[field] + SumOver(Tail(groups), field)

\* len(frame)
RECURSIVE Length(_)
Length(groups) ==
    IF groups = <<>> THEN 0 ELSE Head(groups).count + Length(Tail(groups))

\* A float: a ratio num / den, or NaN.
NaN == [defined |-> FALSE, num |-> 0, den |-> 1]
Float(n, d) == [defined |-> TRUE, num |-> n, den |-> d]

\* Series.mean(): NaN for an empty series.
Mean(groups, field) ==
    IF Length(groups) = 0 THEN NaN
    ELSE Float(SumOver(groups, field), Length(groups))

\* a - b on floats: NaN when either is.
Minus(a, b) ==
    IF a.defined /\ b.defined
    THEN Float(a.num * b.den - b.num * a.den, a.den * b.den)
    ELSE NaN

\* a > p / q: False for NaN.
GreaterThan(a, p, q) == a.defined /\ a.num * q > p * a.den

\* safe_mean with 0.0, not NaN, for the empty series.
safe_mean_zero(groups, field) ==
    IF Length(groups) # 0 THEN Mean(groups, field) ELSE Float(0, 1)

\* Lines 92-93: safe_mean
safe_mean(groups, field) ==
    IF Length(groups) # 0 THEN Mean(groups, field) ELSE NaN

\* Lines 99-100: share of a disposition in percent, 0.0 without visits.
Rate(groups, d) ==
    LET Is(g) == g.disposition = d
    IN  IF Length(groups) # 0
        THEN Float(Length(SelectSeq(groups, Is)) * 100, Length(groups))
        ELSE Float(0, 1)

\* The values that occur in a column.
Unique(groups, field) == {groups[i][field] : i \in 1..Len(groups)}

\* Lines 56-60: the date range the filter uses.
DateBounds(table, date_range) ==
    LET dates == {table[i].arrival_date : i \in 1..Len(table)}
        min_date == CHOOSE d \in dates : \A e \in dates : d <= e
        max_date == CHOOSE d \in dates : \A e \in dates : d >= e
    IN  IF Len(date_range) = 2 THEN date_range ELSE <<min_date, max_date>>

\* A mask that takes an empty pod selection for "all pods".
MaskEmptyIsAll(g, bounds, w) ==
    /\ g.arrival_date >= bounds[1]
    /\ g.arrival_date <= bounds[2]
    /\ g.triage_level \in w.triage_sel
    /\ g.chief_complaint \in w.complaint_sel
    /\ g.arrival_mode \in w.mode_sel
    /\ (w.pod_sel = {} \/ g.pod \in w.pod_sel)

\* Lines 81-88: mask, for one row.
Mask(g, bounds, w) ==
    /\ g.arrival_date >= bounds[1]
    /\ g.arrival_date <= bounds[2]
    /\ g.triage_level \in w.triage_sel
    /\ g.chief_complaint \in w.complaint_sel
    /\ g.arrival_mode \in w.mode_sel
    /\ g.pod \in w.pod_sel

\* The elements of a finite set of integers in increasing order.
RECURSIVE Sorted(_)
Sorted(S) ==
    IF S = {} THEN <<>>
    ELSE LET m == CHOOSE x \in S : \A y \in S : x <= y
         IN  <<m>> \o Sorted(S \ {m})

\* A pivot reindexed to all seven days.
PivotAllDays(dff) ==
    LET Dow(g) == DayName(g.arrival_datetime)
        hours == Unique(dff, "hour")
        Slot(d, h) ==
            LET In(g) == Dow(g) = d /\ g.hour = h
            IN  Mean(SelectSeq(dff, In), "door_to_provider_min")
    IN  [index |-> day_order,
         columns |-> Sorted(hours),
         cell |-> [d \in {day_order[k] : k \in 1..7}, h \in hours |-> Slot(d, h)]]

\* Lines 197-208: heat and pivot.  heat has one row per (dow, hour) that occurs
\* in dff; pivot (set_index and unstack) has one index entry per dow of heat, in
\* the categorical's order, one column per hour of heat, and NaN where heat has
\* no row.
Pivot(dff) ==
    LET Dow(g) == DayName(g.arrival_datetime)
        days == {Dow(dff[i]) : i \in 1..Len(dff)}
        hours == Unique(dff, "hour")
        Present(d) == d \in days
        Slot(d, h) ==
            LET In(g) == Dow(g) = d /\ g.hour = h
            IN  Mean(SelectSeq(dff, In), "door_to_provider_min")
    IN  [index |-> SelectSeq(day_order, Present),
         columns |-> Sorted(hours),
         cell |-> [d \in days, h \in hours |-> Slot(d, h)]]

\* The gate with > for >=.
EnoughDataStrict(dff) == Length(dff) > 50

\* Line 219: whether the insights are computed.
EnoughData(dff) == Length(dff) >= 50

\* Line 223: whether the occupancy insight is written.
BothGroupsLarge(high_occ, low_occ) == Length(high_occ) > 30 /\ Length(low_occ) > 30

\* name in frame.columns; the frames here have at least one row group.
HasColumn(table, name) == name \in DOMAIN table[1]

\* Line 227: whether the flu-wave insight is written.
FluWavePresent(has_flag, dff) ==
    has_flag /\ GreaterThan(Mean(dff, "flu_wave_flag"), 5, 100)

\* Lines 219-232: the lines written under Quick Insights.
Insights(has_flag, dff) ==
    LET Wait == "door_to_provider_min"
        High(g) == g.bed_occupancy_pct >= 850
        Low(g) == g.bed_occupancy_pct < 850
        Flu(g) == g.flu_wave_flag = 1
        NoFlu(g) == g.flu_wave_flag = 0
        high_occ == SelectSeq(dff, High)
        low_occ == SelectSeq(dff, Low)
        occupancy ==
            IF BothGroupsLarge(high_occ, low_occ)
            THEN <<[kind |-> "occupancy",
                    delta |-> Minus(Mean(high_occ, Wait), Mean(low_occ, Wait))]>>
            ELSE <<>>
        flu ==
            IF FluWavePresent(has_flag, dff)
            THEN <<[kind |-> "flu_wave",
                    delta |-> Minus(Mean(SelectSeq(dff, Flu), Wait),
                                    Mean(SelectSeq(dff, NoFlu), Wait))]>>
            ELSE <<>>
    IN  IF EnoughData(dff) THEN occupancy \o flu
        ELSE <<[kind |-> "insufficient", delta |-> NaN]>>

Blank ==
    [rendered |-> FALSE, bounds |-> <<0, 0>>, dff |-> <<>>, total_visits |-> 0,
     avg_dtp |-> NaN, avg_los |-> NaN, avg_occ |-> NaN, lwbs_rate |-> NaN,
     admit_rate |-> NaN,
     pivot |-> [index |-> <<>>, columns |-> <<>>, cell |-> <<>>],
     insights |-> <<>>]

\* Lines 56-232: everything one run of the script computes.
Render(table, w) ==
    LET bounds == DateBounds(table, w.date_range)
        Keep(g) == Mask(g, bounds, w)
        dff == SelectSeq(table, Keep)
    IN  [rendered |-> TRUE,
         bounds |-> bounds,
         dff |-> dff,
         total_visits |-> Length(dff),
         avg_dtp |-> safe_mean(dff, "door_to_provider_min"),
         avg_los |-> safe_mean(dff, "length_of_stay_min"),
         avg_occ |-> safe_mean(dff, "bed_occupancy_pct"),
         lwbs_rate |-> Rate(dff, "Left Without Being Seen"),
         admit_rate |-> Rate(dff, "Admitted"),
         pivot |-> Pivot(dff),
         insights |-> Insights(HasColumn(table, "flu_wave_flag"), dff)]

-----------------------------------------------------------------------------
(* The files the dashboard is started on.                                  *)

\* count rows like those generate_ed_data writes for an arrival on day
\* day_index of a period that starts 2025-10-01, at 17 minutes past hour.
MakeRow(count, day_index, hour, triage, complaint, mode, pod, occ, dtp, los, disp) ==
    LET t == Timestamp("2025-10-01") + day_index * 86400 + hour * 3600 + 17 * 60
    IN  [count |-> count,
         arrival_datetime |-> t,
         day_of_week |-> DayName(t),
         hour |-> Hour(t),
         triage_level |-> triage,
         chief_complaint |-> complaint,
         age_group |-> "18-34",
         arrival_mode |-> mode,
         pod |-> pod,
         labs_ordered |-> 0,
         imaging_ordered |-> 0,
         bed_occupancy_pct |-> occ,
         door_to_provider_min |-> dtp,
         length_of_stay_min |-> los,
         disposition |-> disp,
         flu_wave_flag |-> FluWave(DayIndex(t, Timestamp("2025-10-01"))),
         arrival_date |-> Date(t),
         is_weekend |-> Weekend(t)]

\* The row groups with at least one row.
NonEmpty(groups) ==
    LET Some(g) == g.count > 0
    IN  SelectSeq(groups, Some)

\* Tables of up to four kinds of visit, sized around the thresholds of the
\* insights: quiet weekday visits, crowded Saturday visits, and two kinds of
\* visit on a day of the flu wave.
ThresholdTables ==
    {NonEmpty(<<MakeRow(a, 0, 9, 3, "Injury", "Walk-in", "Pod A", 700, 20, 150,
                        "Discharged"),
                MakeRow(b, 3, 18, 2, "Injury", "Ambulance", "Pod B", 900, 40, 300,
                        "Admitted"),
                MakeRow(c, 40, 18, 3, "Fever/Resp", "Walk-in", "Pod B", 925, 55, 200,
                        "Left Without Being Seen"),
                MakeRow(d, 40, 9, 2, "Fever/Resp", "Ambulance", "Pod A", 849, 30, 120,
                        "Discharged")>>) :
        a \in {0, 20, 30}, b \in {0, 30, 31}, c \in {0, 1, 3, 31}, d \in {0, 31}}
    \ {<<>>}

\* Eight visits on each day of a week that starts the day before the flu wave.
WeekTable ==
    [k \in 1..7 |->
       MakeRow(8, 33 + k, IF k % 2 = 0 THEN 9 ELSE 18, IF k % 3 = 0 THEN 2 ELSE 3,
               IF k <= 4 THEN "Injury" ELSE "Fever/Resp",
               IF k % 2 = 0 THEN "Ambulance" ELSE "Walk-in",
               IF k <= 2 THEN "Pod A" ELSE "Pod B",
               800 + 10 * k, 20 + 3 * k, 100 + 10 * k,
               IF k = 7 THEN "Admitted" ELSE "Discharged")]

\* The same table written by a producer that has no flu_wave_flag column.
WithoutFlag(table) ==
    [i \in 1..Len(table) |->
       [f \in DOMAIN table[i] \ {"flu_wave_flag"} |-> table[i][f]]]

Tables == ThresholdTables \cup {WeekTable, WithoutFlag(WeekTable)}

-----------------------------------------------------------------------------
(* app.py: the session.  Every change of a widget reruns the script.       *)

NoWidgets ==
    [ready |-> FALSE, date_range |-> <<>>, triage_sel |-> {}, complaint_sel |-> {},
     mode_sel |-> {}, pod_sel |-> {}]

\* Lines 30-33: load_data; arrival_date is recomputed from arrival_datetime.
load_data(rows) ==
    [i \in 1..Len(rows) |->
       [rows[i] EXCEPT !.arrival_date = Date(rows[i].arrival_datetime)]]

\* Lines 46-72: the widgets' defaults: the whole date range, every option.
Defaults(table) ==
    [ready |-> TRUE,
     date_range |-> DateBounds(table, <<>>),
     triage_sel |-> Unique(table, "triage_level"),
     complaint_sel |-> Unique(table, "chief_complaint"),
     mode_sel |-> Unique(table, "arrival_mode"),
     pod_sel |-> Unique(table, "pod")]

Toggle(S, x) == IF x \in S THEN S \ {x} ELSE S \cup {x}

\* Line 35 and the first run of the script.
Load ==
    /\ ~widgets.ready
    /\ out_csv.written
    /\ out_csv.rows # <<>>
    /\ df' = load_data(out_csv.rows)
    /\ widgets' = Defaults(df')
    /\ view' = Render(df', widgets')
    /\ UNCHANGED genVars

\* Lines 49-58: the date_input returns a pair of dates (of the dates between
\* min_date and max_date, those on which the table has visits are picked).
SetDateRange ==
    /\ widgets.ready
    /\ \E s \in Unique(df, "arrival_date"), e \in Unique(df, "arrival_date") :
          /\ s <= e
          /\ widgets' = [widgets EXCEPT !.date_range = <<s, e>>]
    /\ view' = Render(df, widgets')
    /\ UNCHANGED <<df, genVars>>

\* Lines 49-60: the date_input returns a single date while the range is
\* being picked.
PickStartOnly ==
    /\ widgets.ready
    /\ \E s \in Unique(df, "arrival_date") :
          widgets' = [widgets EXCEPT !.date_range = <<s>>]
    /\ view' = Render(df, widgets')
    /\ UNCHANGED <<df, genVars>>

\* Lines 62-63
ToggleTriage ==
    /\ widgets.ready
    /\ \E x \in Unique(df, "triage_level") :
          widgets' = [widgets EXCEPT !.triage_sel = Toggle(@, x)]
    /\ view' = Render(df, widgets')
    /\ UNCHANGED <<df, genVars>>

\* Lines 65-66
ToggleComplaint ==
    /\ widgets.ready
    /\ \E x \in Unique(df, "chief_complaint") :
          widgets' = [widgets EXCEPT !.complaint_sel = Toggle(@, x)]
    /\ view' = Render(df, widgets')
    /\ UNCHANGED <<df, genVars>>

\* Lines 68-69
ToggleMode ==
    /\ widgets.ready
    /\ \E x \in Unique(df, "arrival_mode") :
          widgets' = [widgets EXCEPT !.mode_sel = Toggle(@, x)]
    /\ view' = Render(df, widgets')
    /\ UNCHANGED <<df, genVars>>

\* Lines 71-72
TogglePod ==
    /\ widgets.ready
    /\ \E x \in Unique(df, "pod") :
          widgets' = [widgets EXCEPT !.pod_sel = Toggle(@, x)]
    /\ view' = Render(df, widgets')
    /\ UNCHANGED <<df, genVars>>

-----------------------------------------------------------------------------
(* The two specifications: a generator run and its repetition, and a       *)
(* dashboard session on a file.                                            *)

IdleArgs == [n |-> 0, start_date |-> "2025-10-01", days |-> 0, seed |-> 0]

InitGen ==
    /\ args \in [n : -1..MaxN, start_date : StartDates, days : DaysChoices,
                 seed : 0..MaxSeed]
    /\ pc = "seed"
    /\ rng = 0
    /\ loc = EmptyLoc
    /\ out_csv = NoTable
    /\ ret = NoTable
    /\ run = 1
    /\ first_csv = NoTable
    /\ df = <<>>
    /\ widgets = NoWidgets
    /\ view = Blank

NextGen ==
    \/ SeedRng
    \/ ParseStart
    \/ DrawArrival
    \/ Seasonality
    \/ Occupancy
    \/ Attributes
    \/ Complaint
    \/ Orders
    \/ Outcomes
    \/ Dispose
    \/ BuildFrame
    \/ WriteCsv
    \/ Return
    \/ Rerun

SpecGen == InitGen /\ [][NextGen]_vars

InitDash ==
    /\ args = IdleArgs
    /\ pc = "idle"
    /\ rng = 0
    /\ loc = EmptyLoc
    /\ out_csv \in {[written |-> TRUE, rows |-> t] : t \in Tables}
    /\ ret = NoTable
    /\ run = 1
    /\ first_csv = NoTable
    /\ df = <<>>
    /\ widgets = NoWidgets
    /\ view = Blank

NextDash ==
    \/ Load
    \/ SetDateRange
    \/ PickStartOnly
    \/ ToggleTriage
    \/ ToggleComplaint
    \/ ToggleMode
    \/ TogglePod

SpecDash == InitDash /\ [][NextDash]_vars

-----------------------------------------------------------------------------
(* Properties of generate_ed_data, checked under SpecGen.                  *)

InvalidParams == args.n <= 0 \/ args.days <= 0 \/ ~Parses(args.start_date)

\* C1: a call with n <= 0, days <= 0 or an unparseable start_date never
\* writes the CSV and never returns a table.
C1_InvalidParamsWriteNothing ==
    InvalidParams => ~out_csv.written /\ ~ret.written

\* The rows of every table the run has built, written or returned.
TableRows ==
    {loc.df[i] : i \in 1..Len(loc.df)}
        \cup {out_csv.rows[i] : i \in 1..Len(out_csv.rows)}
        \cup {ret.rows[i] : i \in 1..Len(ret.rows)}

\* C2: in every row bed_occupancy_pct is within [35, 98] (350..980 tenths),
\* door_to_provider_min is an integer of [2, 240] and length_of_stay_min an
\* integer of [25, 900], whatever the noise.
C2_ClippedFieldsInBounds ==
    /\ \A i \in DOMAIN loc.bed_occ : loc.bed_occ[i] \in 350..980
    /\ \A i \in DOMAIN loc.door_to_provider_min :
          loc.door_to_provider_min[i] \in 2..240
    /\ \A i \in DOMAIN loc.length_of_stay_min :
          loc.length_of_stay_min[i] \in 25..900
    /\ \A g \in TableRows :
          /\ g.bed_occupancy_pct \in 350..980
          /\ g.door_to_provider_min \in 2..240
          /\ g.length_of_stay_min \in 25..900

\* A finished run in which the noise pushed an occupancy above 98, a wait
\* below 2 and a stay above 900 before the clips.
C2_ClipsActed ==
    /\ pc = "done"
    /\ \E i \in Rows : loc.bed_raw[i] > 98000
    /\ \E i \in Rows : loc.dtp_mean[i] < 2000
    /\ \E i \in Rows : loc.los[i] > 900000

\* C3: every disposition is one of the three; it is Left Without Being Seen
\* when r < lwbs_prob, whatever r2 and admit_prob; otherwise it is Admitted
\* iff r2 < admit_prob and Discharged iff r2 >= admit_prob.
C3_LwbsFirst ==
    \A i \in DOMAIN loc.disposition :
        /\ loc.disposition[i] \in Dispositions
        /\ loc.r[i] < loc.lwbs_prob[i]
              => loc.disposition[i] = "Left Without Being Seen"
        /\ loc.r[i] >= loc.lwbs_prob[i]
              => /\ loc.disposition[i] = "Admitted"
                        <=> loc.r2[i] < loc.admit_prob[i]
                 /\ loc.disposition[i] = "Discharged"
                        <=> loc.r2[i] >= loc.admit_prob[i]

\* A row that left without being seen although its r2 is below admit_prob.
C3_LwbsBeatsAdmission ==
    \E i \in DOMAIN loc.disposition :
        /\ loc.r[i] < loc.lwbs_prob[i]
        /\ loc.r2[i] < loc.admit_prob[i]
        /\ loc.disposition[i] = "Left Without Being Seen"

\* C4: flu_wave_flag is 1 exactly when the whole days elapsed from start_date
\* to the arrival, floored, are in 35..55, and 0 otherwise.
C4_FluWaveByDayIndex ==
    LET start == Timestamp(args.start_date)
    IN  /\ \A i \in DOMAIN loc.flu_wave :
              loc.flu_wave[i] =
                  IF (loc.arrival[i] - start) \div 86400 \in 35..55 THEN 1 ELSE 0
        /\ \A g \in TableRows :
              g.flu_wave_flag =
                  IF (g.arrival_datetime - start) \div 86400 \in 35..55 THEN 1 ELSE 0

\* A written table with a row on the first day of the window, flagged, and a
\* row outside the window, not flagged.
C4_WindowEdgeRow ==
    /\ out_csv.written
    /\ \E i \in 1..Len(out_csv.rows) :
          /\ (out_csv.rows[i].arrival_datetime - Timestamp(args.start_date))
                 \div 86400 = 35
          /\ out_csv.rows[i].flu_wave_flag = 1
    /\ \E i \in 1..Len(out_csv.rows) : out_csv.rows[i].flu_wave_flag = 0

-----------------------------------------------------------------------------
(* Properties of the dashboard, checked under SpecDash.                    *)

\* The filtered rows, and whether a row of the loaded table is among them.
Filtered == {view.dff[j] : j \in 1..Len(view.dff)}

\* The date range in force: the pair picked, or the table's whole range.
RangeInForce ==
    LET dates == {df[i].arrival_date : i \in 1..Len(df)}
    IN  IF Len(widgets.date_range) = 2
        THEN {d \in dates : widgets.date_range[1] <= d /\ d <= widgets.date_range[2]}
        ELSE dates

\* C5: a row of the loaded table is in the filtered set iff its arrival_date
\* is in the inclusive date range and its triage_level, chief_complaint,
\* arrival_mode and pod are each in the selected set; an empty selection in
\* any of the four filters leaves no filtered row.
C5_FilterIsConjunction ==
    view.rendered =>
        /\ \A i \in 1..Len(df) :
              df[i] \in Filtered <=>
                  /\ df[i].arrival_date \in RangeInForce
                  /\ df[i].triage_level \in widgets.triage_sel
                  /\ df[i].chief_complaint \in widgets.complaint_sel
                  /\ df[i].arrival_mode \in widgets.mode_sel
                  /\ df[i].pod \in widgets.pod_sel
        /\ Filtered \subseteq {df[i] : i \in 1..Len(df)}
        /\ ({} \in {widgets.triage_sel, widgets.complaint_sel, widgets.mode_sel,
                    widgets.pod_sel}
                => view.dff = <<>> /\ view.total_visits = 0)

\* A run of the script with every pod deselected, everything else at its
\* default, and no filtered row.
C5_EmptyPodSelection ==
    /\ view.rendered
    /\ widgets.pod_sel = {}
    /\ widgets.triage_sel = Unique(df, "triage_level")
    /\ widgets.complaint_sel = Unique(df, "chief_complaint")
    /\ widgets.mode_sel = Unique(df, "arrival_mode")
    /\ Len(widgets.date_range) = 2
    /\ view.total_visits = 0

FilteredDays == {DayName(g.arrival_datetime) : g \in Filtered}
FilteredSlots == {<<DayName(g.arrival_datetime), g.hour>> : g \in Filtered}

\* C8 as stated: the heat grid always has the seven rows Monday..Sunday.
C8_AlwaysSevenDayRows == view.rendered => view.pivot.index = day_order

\* C8 as amended: the heat grid has one row for each weekday that occurs in
\* the filtered set, in Monday..Sunday order, and none for a weekday that does
\* not; a (day, hour) slot of the grid with no visits is NaN, not zero.
C8_RowsAreDaysPresent ==
    view.rendered =>
        /\ \A k \in 1..Len(view.pivot.index) : view.pivot.index[k] \in FilteredDays
        /\ \A d \in FilteredDays : \E k \in 1..Len(view.pivot.index) :
              view.pivot.index[k] = d
        /\ \A k \in 1..Len(view.pivot.index), m \in 1..Len(view.pivot.index) :
              k < m => \E a \in 1..7, b \in 1..7 :
                          /\ a < b
                          /\ day_order[a] = view.pivot.index[k]
                          /\ day_order[b] = view.pivot.index[m]
        /\ \A k \in 1..Len(view.pivot.index), m \in 1..Len(view.pivot.columns) :
              LET d == view.pivot.index[k]
                  h == view.pivot.columns[m]
              IN  IF <<d, h>> \in FilteredSlots
                  THEN view.pivot.cell[d, h].defined
                  ELSE view.pivot.cell[d, h] = NaN

\* A grid of fewer than seven rows, with a slot that has no visits.
C8_SparseGrid ==
    /\ view.rendered
    /\ Len(view.pivot.index) \in 2..6
    /\ \E k \in 1..Len(view.pivot.index), m \in 1..Len(view.pivot.columns) :
          view.pivot.cell[view.pivot.index[k], view.pivot.columns[m]] = NaN

\* The insights written, by kind.
InsightsOf(kind) ==
    {view.insights[k] : k \in {j \in 1..Len(view.insights) :
                                   view.insights[j].kind = kind}}

\* The number of filtered rows that satisfy a condition on occupancy or flag.
HighOccRows == {g \in Filtered : g.bed_occupancy_pct >= 850}
LowOccRows == {g \in Filtered : g.bed_occupancy_pct < 850}

RECURSIVE RowCount(_)
RowCount(S) ==
    IF S = {} THEN 0
    ELSE LET g == CHOOSE x \in S : TRUE IN g.count + RowCount(S \ {g})

RECURSIVE WaitTotal(_)
WaitTotal(S) ==
    IF S = {} THEN 0
    ELSE LET g == CHOOSE x \in S : TRUE
         IN  g.count * g.door_to_provider_min + WaitTotal(S \ {g})

FlaggedRows == {g \in Filtered : g.flu_wave_flag = 1}

\* C9: below 50 filtered visits exactly one "insufficient data" notice is
\* written and no insight; from 50 on the notice is not written, the
\* occupancy insight (mean wait at occupancy >= 85 minus mean wait below 85)
\* is written iff both groups have more than 30 rows, and the flu-wave
\* insight iff the mean of flu_wave_flag over the filtered rows exceeds 0.05.
C9_InsightGating ==
    view.rendered =>
        IF RowCount(Filtered) < 50
        THEN /\ Len(view.insights) = 1
             /\ view.insights[1].kind = "insufficient"
        ELSE /\ InsightsOf("insufficient") = {}
             /\ Len(view.insights) = Cardinality(InsightsOf("occupancy"))
                                        + Cardinality(InsightsOf("flu_wave"))
             /\ InsightsOf("occupancy") # {}
                    <=> RowCount(HighOccRows) > 30 /\ RowCount(LowOccRows) > 30
             /\ \A o \in InsightsOf("occupancy") :
                    /\ o.delta.defined
                    /\ o.delta.num * RowCount(HighOccRows) * RowCount(LowOccRows)
                          = o.delta.den
                              * (WaitTotal(HighOccRows) * RowCount(LowOccRows)
                                   - WaitTotal(LowOccRows) * RowCount(HighOccRows))
             /\ InsightsOf("flu_wave") # {}
                    <=> /\ "flu_wave_flag" \in DOMAIN df[1]
                        /\ 100 * RowCount(FlaggedRows) > 5 * RowCount(Filtered)

\* A run with at least 50 filtered visits that writes both insights.
C9_BothInsights ==
    /\ view.rendered
    /\ view.total_visits >= 50
    /\ InsightsOf("occupancy") # {}
    /\ InsightsOf("flu_wave") # {}

\* C10: whenever the flu-wave insight is written, the filtered set has rows
\* with flag 1 and rows with flag 0, and the difference written is a number.
C10_FluInsightDefined ==
    view.rendered =>
        \A f \in InsightsOf("flu_wave") :
            /\ f.delta.defined
            /\ \E g \in Filtered : g.flu_wave_flag = 1
            /\ \E g \in Filtered : g.flu_wave_flag = 0

====
